---- MODULE Spec2Model ----
(***************************************************************************)
(* Model of the interactive chat client: the session store                 *)
(* (internal/session/session.go) and the chat orchestrator                 *)
(* (internal/chat/chat.go).                                                *)
(*                                                                         *)
(* A Go string is modelled as a sequence of characters, each character a   *)
(* one-token TLA+ string.  Three tokens stand for classes of characters:   *)
(*   "CYR"  a non-Latin, multi-byte character (for example a Cyrillic one) *)
(*   "BAD"  a byte that is not valid UTF-8 (stdin delivers raw bytes)      *)
(*   "FFFD" the Unicode replacement character U+FFFD                       *)
(***************************************************************************)
EXTENDS Integers, Sequences, FiniteSets, TLC

VARIABLES
    pc,          \* position of the process: init, await, streaming, closed, failed
    userName,    \* the user name handed to NewChat
    session,     \* c.session: [UserName, Messages]
    disk,        \* the file system: path -> file content, for the paths that exist
    dirs,        \* the directories that exist
    response,    \* sendMessage's strings.Builder
    chunks,      \* the fragments the client has delivered in the current stream
    lastErr,     \* the error the last operation returned ("none" when nil)
    lastSave,    \* what autoSave did in the last step: none, ok, failed
    turns,       \* the number of lines processUserInput has handled in this run
    inflight,    \* the requests handed to client.Generate that have not returned
    lastLine,    \* what scanner.Scan() delivered in the last step, if it was called
    nameA,       \* first user name given to the path functions
    nameB,       \* second user name given to the path functions
    safeA,       \* sanitizeUserName(nameA), once computed
    pathA,       \* getSessionFilePath(nameA), once resolved
    pathB,       \* getSessionFilePath(nameB), once resolved
    namePc,      \* position of the path computation: idle, sanitized, resolved
    stored,      \* the session handed to SaveSession in the store round trip
    loaded,      \* the result of loadOrCreateSession in the store round trip
    storePc,     \* position of the store round trip: off, idle, saved, savefailed, loaded
    storeCfg,    \* the configuration handed to loadOrCreateSession in the round trip
    fresh,       \* Created, Updated and Cfg of the session loadOrCreateSession created
    ctxMessages, \* the message history given to the context builder
    ctxCfg,      \* the configuration given to the context builder
    ctxCount,    \* the count given to the last call of calculateStartIndex
    ctxStart,    \* what the last call of calculateStartIndex returned
    ctxShown,    \* the lines DisplayRecentMessages printed
    ctxReads,    \* the positions of the history the last call read by index
    ctxReq,      \* the api.GenerateRequest of sendMessage, once built
    ctxChatReq,  \* the api.ChatRequest of the message-list sendMessage, once built
    ctxErr,      \* the error sendMessage returned before calling the client
    ctxPc,       \* position of the context computation
    textIn,      \* the string given to isExitCommand and truncateContent
    textMax,     \* the maxLength given to truncateContent
    textExit,    \* isExitCommand(textIn), once computed
    textOut,     \* truncateContent(textIn, textMax), once computed
    textMsg,     \* the role given to NewMessage and what it returned, once called
    textPc,      \* position of the text computation
    procs        \* the processes that run the chat loop side by side, each with
                 \* its position, its session and the result of its last save

vars == <<pc, userName, session, disk, dirs, response, chunks, lastErr, lastSave, turns,
          inflight, lastLine,
          nameA, nameB, safeA, pathA, pathB, namePc,
          stored, loaded, storePc, storeCfg, fresh,
          ctxMessages, ctxCfg, ctxCount, ctxStart, ctxShown, ctxReads,
          ctxReq, ctxChatReq, ctxErr, ctxPc,
          textIn, textMax, textExit, textOut, textMsg, textPc,
          procs>>

loopVars == <<pc, userName, session, disk, dirs, response, chunks, lastErr, lastSave, turns,
              inflight, lastLine>>
nameVars == <<nameA, nameB, safeA, pathA, pathB, namePc>>
storeVars == <<stored, loaded, storePc, storeCfg, fresh>>
ctxVars == <<ctxMessages, ctxCfg, ctxCount, ctxStart, ctxShown, ctxReads,
            ctxReq, ctxChatReq, ctxErr, ctxPc>>
textVars == <<textIn, textMax, textExit, textOut, textMsg, textPc>>
procVars == <<procs>>

(***************************************************************************)
(* Bounds                                                                  *)
(***************************************************************************)
MaxTurns == 2
MaxChunks == 2
MaxNameLen == 2
MaxPairLen == 2
MaxStoreMsgs == 2
MaxClock == 1
MaxHistory == 3
MaxLimit == 3
MaxTextLen == 3
MaxLength == 3
MaxProcTurns == 2

(***************************************************************************)
(* Strings                                                                 *)
(***************************************************************************)
RECURSIVE SeqsUpTo(_, _)
SeqsUpTo(S, n) ==
    IF n = 0 THEN {<<>>}
    ELSE LET shorter == SeqsUpTo(S, n - 1)
         IN  shorter \cup {Append(s, c) : s \in {t \in shorter : Len(t) = n - 1}, c \in S}

IsPrefix(s, t) == Len(s) <= Len(t) /\ SubSeq(t, 1, Len(s)) = s

RECURSIVE Concat(_)
Concat(ss) == IF ss = <<>> THEN <<>> ELSE Head(ss) \o Concat(Tail(ss))

\* unicode.IsSpace, restricted to the characters of the model
IsSpace(c) == c = " "

TrimSpaceLeftOnly(s) == IF s # <<>> /\ s[1] = " " THEN Tail(s) ELSE s

\* strings.TrimSpace
RECURSIVE TrimLeft(_)
TrimLeft(s) == IF s # <<>> /\ IsSpace(Head(s)) THEN TrimLeft(Tail(s)) ELSE s

RECURSIVE TrimRight(_)
TrimRight(s) ==
    IF s # <<>> /\ IsSpace(s[Len(s)]) THEN TrimRight(SubSeq(s, 1, Len(s) - 1)) ELSE s

TrimSpace(s) == TrimRight(TrimLeft(s))

\* strings.ReplaceAll(s, old, new) for a one-character old and new
ReplaceAll(s, old, new) == [i \in DOMAIN s |-> IF s[i] = old THEN new ELSE s[i]]

\* encoding/json writes a string "coerced to valid UTF-8, replacing invalid
\* bytes with the Unicode replacement rune"
ToValidUTF8(s) == [i \in DOMAIN s |-> IF s[i] = "BAD" THEN "FFFD" ELSE s[i]]

(***************************************************************************)
(* Session store: internal/session/session.go                              *)
(***************************************************************************)
CtxDir == <<"c", "h", "a", "t", "s">>
CtxFileExt == <<".", "j", "s", "o", "n">>

UnsafeChars == {" ", "/", "\\", ":", "*", "?", "\"", "<", ">", "|"}

sanitizeUserNameNoPipe(u) ==
    LET s1 == ReplaceAll(u, " ", "_")
        s2 == ReplaceAll(s1, "/", "_")
        s3 == ReplaceAll(s2, "\\", "_")
        s4 == ReplaceAll(s3, ":", "_")
        s5 == ReplaceAll(s4, "*", "_")
        s6 == ReplaceAll(s5, "?", "_")
        s7 == ReplaceAll(s6, "\"", "_")
        s8 == ReplaceAll(s7, "<", "_")
        s9 == ReplaceAll(s8, ">", "_")
    IN  s9

sanitizeUserName(u) ==
    LET s1 == ReplaceAll(u, " ", "_")
        s2 == ReplaceAll(s1, "/", "_")
        s3 == ReplaceAll(s2, "\\", "_")
        s4 == ReplaceAll(s3, ":", "_")
        s5 == ReplaceAll(s4, "*", "_")
        s6 == ReplaceAll(s5, "?", "_")
        s7 == ReplaceAll(s6, "\"", "_")
        s8 == ReplaceAll(s7, "<", "_")
        s9 == ReplaceAll(s8, ">", "_")
        s10 == ReplaceAll(s9, "|", "_")
    IN  s10

getSessionFilePathUnsanitized(u) == <<CtxDir, u \o CtxFileExt>>

\* filepath.Join(cfg.CtxDir, safeUserName + cfg.CtxFileExt): the directory and
\* the file name; the file name holds no separator after sanitizing
getSessionFilePath(u) == <<CtxDir, sanitizeUserName(u) \o CtxFileExt>>

RoleUser == "user"
RoleAssistant == "assistant"

Message(role, content) == [Role |-> role, Content |-> content]

\* a nil *Message
NilMessage == [Role |-> "nil", Content |-> <<>>]

NewMessageAcceptsEmpty(role, content) ==
    [err |-> "none", msg |-> Message(role, content)]

\* NewMessage(role, content): the message and the error it returns
NewMessage(role, content) ==
    IF content = <<>>
    THEN [err |-> "ErrEmptyContent", msg |-> NilMessage]
    ELSE [err |-> "none", msg |-> Message(role, content)]

ChatSession(u, msgs) == [UserName |-> u, Messages |-> msgs]

\* the zero value of ChatSession (also what is held before NewChat returns)
ZeroSession == ChatSession(<<>>, <<>>)

\* json.MarshalIndent(session): the JSON document, every string coerced to
\* valid UTF-8; Cfg is not serialized
MarshalIndent(s) ==
    [kind |-> "json",
     username |-> ToValidUTF8(s.UserName),
     messages |-> [i \in DOMAIN s.Messages |->
                      [role |-> s.Messages[i].Role,
                       content |-> ToValidUTF8(s.Messages[i].Content)]]]

\* what a write that failed or was cut short after O_TRUNC leaves behind:
\* a proper prefix of the document, which is not valid JSON
TruncatedFile == [kind |-> "truncated"]

FileExists(d, path) == path \in DOMAIN d

\* os.WriteFile(path, data, 0644): open with O_CREATE|O_TRUNC, write, close.
\* outcome "ok": the data is written; "openfail": the open failed and nothing
\* changed; "writefail": the file was truncated and the write did not finish
WriteFile(d, path, data, outcome) ==
    IF outcome = "openfail" THEN d
    ELSE [p \in (DOMAIN d) \cup {path} |->
            IF p = path
            THEN (IF outcome = "ok" THEN data ELSE TruncatedFile)
            ELSE d[p]]

WriteOutcomes == {"ok", "openfail", "writefail"}

\* (c *ChatSession).SaveSession(session): the new file system
SaveSession(d, s, outcome) ==
    WriteFile(d, getSessionFilePath(s.UserName), MarshalIndent(s), outcome)

\* json.Unmarshal(data, &session): a key the document lacks leaves the field
\* at its zero value
Unmarshal(file) ==
    ChatSession(IF "username" \in DOMAIN file THEN file.username ELSE <<>>,
                [i \in DOMAIN file.messages |->
                    Message(file.messages[i].role, file.messages[i].content)])

\* the fields loadOrCreateSession gives a session it creates besides UserName
\* and Messages; now1 and now2 are what its two calls of time.Now() return
NewSessionFields(cfg, now1, now2) == [Created |-> now1, Updated |-> now2, Cfg |-> cfg]

\* ensureChatsDir(cfg): os.MkdirAll(cfg.CtxDir), which succeeds on a
\* directory that exists
MkdirFailures(ds) == IF CtxDir \in ds THEN {FALSE} ELSE BOOLEAN

ensureChatsDir(ds, fails) == IF fails THEN ds ELSE ds \cup {CtxDir}

loadOrCreateSessionSwallowsParse(d, u, readFails) ==
    LET filePath == getSessionFilePath(u)
    IN  IF ~FileExists(d, filePath)
        THEN [err |-> "none", session |-> ChatSession(u, <<>>)]
        ELSE IF readFails
        THEN [err |-> "ErrFileRead", session |-> ZeroSession]
        ELSE IF d[filePath].kind # "json"
        THEN [err |-> "none", session |-> ChatSession(u, <<>>)]
        ELSE [err |-> "none", session |-> Unmarshal(d[filePath])]

\* loadOrCreateSession(userName, cfg); readFails: os.ReadFile returns an error
loadOrCreateSession(d, u, readFails) ==
    LET filePath == getSessionFilePath(u)
    IN  IF ~FileExists(d, filePath)
        THEN [err |-> "none", session |-> ChatSession(u, <<>>)]
        ELSE IF readFails
        THEN [err |-> "ErrFileRead", session |-> ZeroSession]
        ELSE IF d[filePath].kind # "json"
        THEN [err |-> "ErrFileParse", session |-> ZeroSession]
        ELSE [err |-> "none", session |-> Unmarshal(d[filePath])]

(***************************************************************************)
(* Chat orchestrator: internal/chat/chat.go                                *)
(***************************************************************************)
isExitCommandTrims(input) ==
    TrimSpace(input) \in {<<"e", "x", "i", "t">>, <<"q", "u", "i", "t">>, <<>>}

isExitCommand(input) ==
    input = <<"e", "x", "i", "t">> \/ input = <<"q", "u", "i", "t">> \/ input = <<>>

appendUserMessagePrepends(s, input) ==
    [s EXCEPT !.Messages = <<Message(RoleUser, input)>> \o @]

\* processUserInput, the append of the user message
appendUserMessage(s, input) ==
    [s EXCEPT !.Messages = Append(@, Message(RoleUser, input))]

\* the callback handed to client.Generate: the builder after one fragment
callbackWritesThinking(buf, resp) ==
    LET b1 == IF resp.Thinking # <<>> THEN buf \o resp.Thinking ELSE buf
    IN  IF resp.Response # <<>> THEN b1 \o resp.Response ELSE b1

callback(buf, resp) ==
    IF resp.Response # <<>> THEN buf \o resp.Response ELSE buf

addAIResponse(s, resp) ==
    [s EXCEPT !.Messages = Append(@, Message(RoleAssistant, resp))]

\* NewChat's fmt.Errorf("%w: %v", errors.ErrSessionInit, err): the sentinel
\* with the cause it wraps
WrapSessionInit(cause) ==
    CASE cause = "ErrFileRead" -> "ErrSessionInit: ErrFileRead"
      [] cause = "ErrFileParse" -> "ErrSessionInit: ErrFileParse"
      [] OTHER -> "ErrSessionInit: MkdirAll"

\* the condition of autoSave
autoSaveDue(msgCount) == msgCount = 2 \/ msgCount % 4 = 0

\* the UTF-8 encoding of a string: the bytes of each character in order, a
\* byte being named by its character and its position in the character
Width(c) == CASE c = "CYR" -> 2 [] c = "FFFD" -> 3 [] c = "EMO" -> 4 [] OTHER -> 1

Encode(c) == [k \in 1 .. Width(c) |-> [of |-> c, at |-> k]]

RECURSIVE Bytes(_)
Bytes(s) == IF s = <<>> THEN <<>> ELSE Encode(Head(s)) \o Bytes(Tail(s))

Ellipsis == <<".", ".", ".">>

\* truncateContent(content, maxLength): len and the slice count bytes
truncateContent(content, maxLength) ==
    IF Len(Bytes(content)) > maxLength
    THEN SubSeq(Bytes(content), 1, maxLength) \o Bytes(Ellipsis)
    ELSE Bytes(content)

\* the largest and the smallest value of a Go int, at the width of a 32-bit
\* build (a 64-bit build behaves alike at 2^63); strconv.Atoi accepts
\* every value from MinInt to MaxInt
MaxInt == 2147483647
MinInt == (-MaxInt) - 1

\* a - b in Go's int arithmetic: a difference outside MinInt .. MaxInt wraps
\* around by 2^32
SubInt(a, b) ==
    IF b < 0 /\ a > MaxInt + b THEN (a - MaxInt - 1) - (b + MaxInt + 1)
    ELSE IF b > 0 /\ a < MinInt + b THEN (a + MaxInt + 1) - (b - MaxInt - 1)
    ELSE a - b

calculateStartIndexClampsToTotal(totalMessages, count) ==
    LET start == SubInt(totalMessages, count)
    IN  IF start < 0 THEN totalMessages ELSE start

calculateStartIndexNoClamp(totalMessages, count) == SubInt(totalMessages, count)

calculateStartIndex(totalMessages, count) ==
    LET start == SubInt(totalMessages, count)
    IN  IF start < 0 THEN 0 ELSE start

\* (m *Message).IsUser
IsUser(msg) == msg.Role = RoleUser

\* the indices, counted from 1, that a Go loop "for i := lo; i < hi; i++"
\* over a slice visits
LoopRange(lo, hi) == IF lo >= hi THEN {} ELSE (lo + 1) .. hi

\* an index expression s[i] with i outside the slice panics at run time
InRange(messages, reads) == reads \subseteq DOMAIN messages

\* the positions, counted from 1, at which a Go loop "for i := lo; i < hi;
\* i++" that reads s[i] indexes the slice: the loop ends at the first
\* position that is outside it
LoopReads(lo, hi) ==
    IF lo >= hi THEN {} ELSE IF lo < 0 THEN {lo + 1} ELSE LoopRange(lo, hi)

\* the positions at which DisplayRecentMessages indexes messages
DisplayReads(messages, count) ==
    LoopReads(calculateStartIndex(Len(messages), count), Len(messages))

\* the positions at which buildContextPrompt indexes messages: those of its
\* loop and then the last one
PromptReads(messages, cfg) ==
    IF Len(messages) = 0 THEN {}
    ELSE LET loop == LoopReads(calculateStartIndex(Len(messages), cfg.CtxSizeLimit),
                               Len(messages) - 1)
         IN  IF InRange(messages, loop) THEN loop \cup {Len(messages)} ELSE loop

\* the positions at which the message-list sendMessage indexes message
ChatReads(messages, cfg) ==
    LoopReads(calculateStartIndex(Len(messages), cfg.CtxSizeLimit), Len(messages))

\* the maxLength displayMessage passes to truncateContent
DisplayLimit == 1000

\* displayMessage(msg): the line printed
displayMessage(msg) ==
    IF IsUser(msg)
    THEN [who |-> "Vy", content |-> Bytes(msg.Content)]
    ELSE [who |-> "AI", content |-> truncateContent(msg.Content, DisplayLimit)]

\* DisplayRecentMessages(messages, count): the lines printed
DisplayRecentMessages(messages, count) ==
    LET start == calculateStartIndex(Len(messages), count)
        window == LoopRange(start, Len(messages))
    IN  [k \in 1 .. Cardinality(window) |-> displayMessage(messages[start + k])]

buildContextPromptWholeHistory(messages, cfg) ==
    IF Len(messages) = 0 THEN <<>>
    ELSE <<[label |-> "Predydushchiy kontekst besedy", content |-> <<>>]>>
         \o [k \in 1 .. Len(messages) - 1 |->
                [label |-> IF IsUser(messages[k]) THEN "Polzovatel" ELSE "Assistent",
                 content |-> messages[k].Content]]
         \o <<[label |-> "Tekushchiy vopros",
               content |-> messages[Len(messages)].Content]>>

\* buildContextPrompt(messages): the prompt as the sequence of the pieces
\* written to the builder, each with the label that precedes its content
buildContextPrompt(messages, cfg) ==
    IF Len(messages) = 0 THEN <<>>
    ELSE LET start == calculateStartIndex(Len(messages), cfg.CtxSizeLimit)
             prior == LoopRange(start, Len(messages) - 1)
             lines == [k \in 1 .. Cardinality(prior) |->
                         LET msg == messages[start + k]
                         IN  [label |-> IF IsUser(msg) THEN "Polzovatel" ELSE "Assistent",
                              content |-> msg.Content]]
         IN  <<[label |-> "Predydushchiy kontekst besedy", content |-> <<>>]>>
             \o lines
             \o <<[label |-> "Tekushchiy vopros",
                   content |-> messages[Len(messages)].Content]>>

\* sendMessage of chat.go, from the prompt to the request handed to
\* client.Generate
GenerateRequest(messages, cfg) ==
    LET prompt == buildContextPrompt(messages, cfg)
        full == IF cfg.UseAssistantPrefill
                THEN Append(prompt, [label |-> "Nachni svoy otvet s frazy",
                                     content |-> cfg.AssistantPrefill])
                ELSE prompt
    IN  [Think |-> cfg.ThinkValue,
         Model |-> cfg.ModelName,
         Prompt |-> full,
         Stream |-> TRUE,
         System |-> cfg.SystemPrompt,
         Options |-> [k \in {"temperature"} |-> cfg.Temperature]]

\* no request was built
NoRequest == <<>>

sendMessageNoEmptyCheck(message, cfg) ==
    [err |-> "none", req |-> GenerateRequest(message, cfg)]

\* sendMessage(message), up to the call of client.Generate: the error it
\* returns at once, or the request it hands to the client
sendMessage(message, cfg) ==
    IF Len(message) = 0
    THEN [err |-> "ErrNoMessages", req |-> NoRequest]
    ELSE [err |-> "none", req |-> GenerateRequest(message, cfg)]

\* the configuration NewConfig returns when the environment sets nothing
DefaultCtxSizeLimit == 10000

LoopCfg ==
    [ModelName |-> "deepseek-r1:8b",
     Temperature |-> "0.1",
     ThinkValue |-> FALSE,
     CtxSizeLimit |-> DefaultCtxSizeLimit,
     SystemPrompt |-> <<"s">>,
     AssistantPrefill |-> <<"p">>,
     UseAssistantPrefill |-> TRUE,
     StopSequences |-> <<"Human:", "User:">>,
     MaxResponseSize |-> 0]

ChatRequestAlwaysSystem(messages, cfg) ==
    LET start == calculateStartIndex(Len(messages), cfg.CtxSizeLimit)
        window == LoopRange(start, Len(messages))
        history == [k \in 1 .. Cardinality(window) |->
                      [Role |-> messages[start + k].Role,
                       Content |-> messages[start + k].Content]]
    IN  [Model |-> cfg.ModelName,
         Messages |-> <<[Role |-> "system", Content |-> cfg.SystemPrompt]>> \o history,
         Stream |-> TRUE,
         Options |-> [k \in {"temperature"} |-> cfg.Temperature]]

\* sendMessage of the message-list variant, up to the request handed to
\* client.Chat
ChatRequest(messages, cfg) ==
    LET system == IF cfg.SystemPrompt # <<>>
                  THEN <<[Role |-> "system", Content |-> cfg.SystemPrompt]>>
                  ELSE <<>>
        start == calculateStartIndex(Len(messages), cfg.CtxSizeLimit)
        window == LoopRange(start, Len(messages))
        history == [k \in 1 .. Cardinality(window) |->
                      [Role |-> messages[start + k].Role,
                       Content |-> messages[start + k].Content]]
    IN  [Model |-> cfg.ModelName,
         Messages |-> system \o history,
         Stream |-> TRUE,
         Options |-> [k \in {"temperature"} |-> cfg.Temperature]]

(***************************************************************************)
(* The inputs of the chat loop                                             *)
(***************************************************************************)
LoopUserNames == {<<>>, <<"a", " ", "b">>, <<"a", "BAD">>}

\* the histories an earlier run of the program has saved: after its first
\* turn, and after its second
EarlierHistories ==
    { <<Message(RoleUser, <<"a">>), Message(RoleAssistant, <<"b">>)>>,
      <<Message(RoleUser, <<"a">>), Message(RoleAssistant, <<"b">>),
        Message(RoleUser, <<"a">>), Message(RoleAssistant, <<"b", "b">>)>> }

\* the file systems the program can start in: no session file, the file an
\* earlier run saved for the same name, the file an earlier failed write left
InitDisks(u) ==
    LET path == getSessionFilePath(u)
    IN  { <<>>, [p \in {path} |-> TruncatedFile] }
        \cup { [p \in {path} |-> MarshalIndent(ChatSession(u, h))] : h \in EarlierHistories }

\* the directories that can exist at the start: the context directory holds
\* every session file, so it exists when a session file does
InitDirs(d) == IF d = <<>> THEN {{}, {CtxDir}} ELSE {{CtxDir}}

\* the lines the terminal can deliver
Lines == { <<>>, <<" ">>,
           <<"e", "x", "i", "t">>, <<" ", "e", "x", "i", "t", " ">>,
           <<"q", "u", "i", "t">>,
           <<"a">>, <<" ", "a", " ">>, <<"BAD">> }

\* the fragments the inference client can deliver
Fragments == [Thinking : {<<>>, <<"t">>}, Response : {<<>>, <<"b">>}]

\* the path computation and the store round trip are not running
NamesOff ==
    /\ nameA = <<>> /\ nameB = <<>> /\ safeA = <<>>
    /\ pathA = <<>> /\ pathB = <<>> /\ namePc = "off"

NoLoad == [err |-> "none", session |-> ZeroSession]

\* no session has been created by loadOrCreateSession
NoFresh == [Created |-> -1, Updated |-> -1, Cfg |-> "none"]

StoreOff ==
    /\ stored = ZeroSession /\ loaded = NoLoad /\ storePc = "off"
    /\ storeCfg = "none" /\ fresh = NoFresh

\* NewMessage has not been called
NoCall == [role |-> "", err |-> "none", msg |-> NilMessage]

\* the context computation and the text computation are not running
CtxOff ==
    /\ ctxMessages = <<>> /\ ctxCfg = <<>> /\ ctxCount = 0 /\ ctxStart = 0
    /\ ctxShown = <<>> /\ ctxReads = {}
    /\ ctxReq = <<>> /\ ctxChatReq = <<>> /\ ctxErr = "none" /\ ctxPc = "off"

TextOff ==
    /\ textIn = <<>> /\ textMax = 0 /\ textExit = FALSE /\ textOut = <<>>
    /\ textMsg = NoCall /\ textPc = "off"

\* what scanner.Scan() delivered: nothing (it was not called), a line, or
\* the end of the input
NoLine == [kind |-> "none", text |-> <<>>]
EndOfInput == [kind |-> "eof", text |-> <<>>]
LineRead(line) == [kind |-> "line", text |-> line]

\* no processes run side by side
TwoOff == procs = <<>>

\* the chat loop is not running
LoopOff ==
    /\ pc = "off" /\ userName = <<>> /\ session = ZeroSession
    /\ response = <<>> /\ chunks = <<>> /\ lastErr = "none"
    /\ lastSave = "none" /\ turns = 0
    /\ inflight = <<>> /\ lastLine = NoLine

(***************************************************************************)
(* The chat loop                                                           *)
(***************************************************************************)
Init ==
    /\ pc = "init"
    /\ userName \in LoopUserNames
    /\ session = ZeroSession
    /\ disk \in InitDisks(userName)
    /\ dirs \in InitDirs(disk)
    /\ response = <<>>
    /\ chunks = <<>>
    /\ lastErr = "none"
    /\ lastSave = "none"
    /\ turns = 0
    /\ inflight = <<>>
    /\ lastLine = NoLine
    /\ NamesOff
    /\ StoreOff
    /\ CtxOff
    /\ TextOff
    /\ TwoOff

NewChatDirFirst ==
    /\ pc = "init"
    /\ \E clientFails \in BOOLEAN, mkdirFails \in MkdirFailures(dirs), readFails \in BOOLEAN :
         LET r == loadOrCreateSession(disk, userName, readFails)
             err == IF mkdirFails THEN WrapSessionInit("MkdirAll")
                    ELSE IF userName = <<>> THEN "ErrEmptyInput"
                    ELSE IF clientFails THEN "ErrClientInit"
                    ELSE IF r.err # "none" THEN WrapSessionInit(r.err)
                    ELSE "none"
         IN  /\ lastErr' = err
             /\ pc' = IF err = "none" THEN "await" ELSE "failed"
             /\ session' = IF err = "none" THEN r.session ELSE ZeroSession
             /\ dirs' = ensureChatsDir(dirs, mkdirFails)
    /\ UNCHANGED <<userName, disk, response, chunks, lastSave, turns>>
    /\ lastLine' = NoLine
    /\ inflight' = inflight
    /\ UNCHANGED <<nameVars, storeVars, ctxVars, textVars, procVars>>

\* NewChat(userName, cfg), with session.NewChatSession
NewChat ==
    /\ pc = "init"
    /\ \E clientFails \in BOOLEAN, mkdirFails \in MkdirFailures(dirs), readFails \in BOOLEAN :
         LET r == loadOrCreateSession(disk, userName, readFails)
             err == IF userName = <<>> THEN "ErrEmptyInput"
                    ELSE IF clientFails THEN "ErrClientInit"
                    ELSE IF mkdirFails THEN WrapSessionInit("MkdirAll")
                    ELSE IF r.err # "none" THEN WrapSessionInit(r.err)
                    ELSE "none"
         IN  /\ lastErr' = err
             /\ pc' = IF err = "none" THEN "await" ELSE "failed"
             /\ session' = IF err = "none" THEN r.session ELSE ZeroSession
             /\ dirs' = IF userName # <<>> /\ ~clientFails
                        THEN ensureChatsDir(dirs, mkdirFails)
                        ELSE dirs
    /\ UNCHANGED <<userName, disk, response, chunks, lastSave, turns>>
    /\ lastLine' = NoLine
    /\ inflight' = inflight
    /\ UNCHANGED <<nameVars, storeVars, ctxVars, textVars, procVars>>

\* StartChat: scanner.Scan() returns false
ScanEOF ==
    /\ pc = "await"
    /\ pc' = "closed"
    /\ lastErr' = "none"
    /\ lastSave' = "none"
    /\ UNCHANGED <<userName, session, disk, response, chunks, turns>>
    /\ lastLine' = EndOfInput
    /\ inflight' = inflight
    /\ UNCHANGED <<dirs, nameVars, storeVars, ctxVars, textVars, procVars>>

\* StartChat with the process at one of the given positions: a line is read;
\* an exit command closes the loop, any other line goes to processUserInput,
\* which appends the user message and calls sendMessage up to the call of
\* client.Generate
ReadLineAt(positions) ==
    /\ pc \in positions
    /\ \E line \in Lines :
         LET input == TrimSpace(line)
         IN  /\ lastLine' = LineRead(line)
             /\ IF isExitCommand(input)
                THEN /\ pc' = "closed"
                     /\ lastErr' = "none"
                     /\ UNCHANGED <<session, turns, inflight>>
                ELSE /\ turns < MaxTurns
                     /\ LET s1 == appendUserMessage(session, input)
                            sent == sendMessage(s1.Messages, LoopCfg)
                        IN  /\ session' = s1
                            /\ lastErr' = sent.err
                            /\ IF sent.err = "none"
                               THEN /\ inflight' = Append(inflight, sent.req)
                                    /\ pc' = "streaming"
                               ELSE /\ inflight' = inflight
                                    /\ pc' = "await"
                     /\ turns' = turns + 1
    /\ response' = <<>>
    /\ chunks' = <<>>
    /\ lastSave' = "none"
    /\ UNCHANGED <<userName, disk>>
    /\ UNCHANGED <<dirs, nameVars, storeVars, ctxVars, textVars, procVars>>

ReadLineWhileStreaming == ReadLineAt({"await", "streaming"})

ReadLineAfterClose == ReadLineAt({"await", "closed"})

ReadLineSavesAfterAppend ==
    /\ pc = "await"
    /\ \E line \in Lines :
         LET input == TrimSpace(line)
         IN  /\ lastLine' = LineRead(line)
             /\ IF isExitCommand(input)
                THEN /\ pc' = "closed"
                     /\ lastErr' = "none"
                     /\ lastSave' = "none"
                     /\ UNCHANGED <<session, turns, inflight, disk>>
                ELSE /\ turns < MaxTurns
                     /\ LET s1 == appendUserMessage(session, input)
                            sent == sendMessage(s1.Messages, LoopCfg)
                        IN  /\ session' = s1
                            /\ lastErr' = sent.err
                            /\ inflight' = Append(inflight, sent.req)
                            /\ pc' = "streaming"
                            /\ IF autoSaveDue(Len(s1.Messages))
                               THEN \E outcome \in WriteOutcomes :
                                      /\ disk' = SaveSession(disk, s1, outcome)
                                      /\ lastSave' = IF outcome = "ok" THEN "ok" ELSE "failed"
                               ELSE /\ disk' = disk
                                    /\ lastSave' = "none"
                     /\ turns' = turns + 1
    /\ response' = <<>>
    /\ chunks' = <<>>
    /\ UNCHANGED userName
    /\ UNCHANGED <<dirs, nameVars, storeVars, ctxVars, textVars, procVars>>

\* StartChat while it awaits input
ReadLine == ReadLineAt({"await"})

\* the client invokes the callback with one fragment
GenerateCallback ==
    /\ pc = "streaming"
    /\ Len(chunks) < MaxChunks
    /\ \E resp \in Fragments :
         /\ response' = callback(response, resp)
         /\ chunks' = Append(chunks, resp)
    /\ UNCHANGED <<pc, userName, session, disk, lastErr, lastSave, turns>>
    /\ lastLine' = NoLine
    /\ inflight' = inflight
    /\ UNCHANGED <<dirs, nameVars, storeVars, ctxVars, textVars, procVars>>

GenerateFailsKeepsPartial ==
    /\ pc = "streaming"
    /\ pc' = "await"
    /\ lastErr' = "ErrMessageSend"
    /\ session' = IF response # <<>> THEN addAIResponse(session, response) ELSE session
    /\ response' = <<>>
    /\ lastSave' = "none"
    /\ UNCHANGED <<userName, disk, chunks, turns>>
    /\ lastLine' = NoLine
    /\ inflight' = Tail(inflight)
    /\ UNCHANGED <<dirs, nameVars, storeVars, ctxVars, textVars, procVars>>

GenerateFailsRollsBack ==
    /\ pc = "streaming"
    /\ pc' = "await"
    /\ lastErr' = "ErrMessageSend"
    /\ session' = [session EXCEPT !.Messages = SubSeq(@, 1, Len(@) - 1)]
    /\ response' = <<>>
    /\ lastSave' = "none"
    /\ UNCHANGED <<userName, disk, chunks, turns>>
    /\ lastLine' = NoLine
    /\ inflight' = Tail(inflight)
    /\ UNCHANGED <<dirs, nameVars, storeVars, ctxVars, textVars, procVars>>

GenerateFailsEndsLoop ==
    /\ pc = "streaming"
    /\ pc' = "closed"
    /\ lastErr' = "ErrMessageSend"
    /\ response' = <<>>
    /\ lastSave' = "none"
    /\ lastLine' = NoLine
    /\ inflight' = Tail(inflight)
    /\ UNCHANGED <<userName, session, disk, chunks, turns>>
    /\ UNCHANGED <<dirs, nameVars, storeVars, ctxVars, textVars, procVars>>

\* client.Generate returns an error (a failed request, or the timeout)
GenerateFails ==
    /\ pc = "streaming"
    /\ pc' = "await"
    /\ lastErr' = "ErrMessageSend"
    /\ response' = <<>>
    /\ lastSave' = "none"
    /\ UNCHANGED <<userName, session, disk, chunks, turns>>
    /\ lastLine' = NoLine
    /\ inflight' = Tail(inflight)
    /\ UNCHANGED <<dirs, nameVars, storeVars, ctxVars, textVars, procVars>>

GenerateReturnsSaveFatal ==
    /\ pc = "streaming"
    /\ LET s1 == addAIResponse(session, response)
       IN  IF autoSaveDue(Len(s1.Messages))
           THEN \E outcome \in WriteOutcomes :
                  /\ disk' = SaveSession(disk, s1, outcome)
                  /\ lastSave' = IF outcome = "ok" THEN "ok" ELSE "failed"
                  /\ session' = IF outcome = "ok" THEN s1 ELSE session
                  /\ pc' = IF outcome = "ok" THEN "await" ELSE "closed"
           ELSE /\ disk' = disk
                /\ lastSave' = "none"
                /\ session' = s1
                /\ pc' = "await"
    /\ lastErr' = "none"
    /\ response' = <<>>
    /\ UNCHANGED <<userName, dirs, chunks, turns>>
    /\ lastLine' = NoLine
    /\ inflight' = Tail(inflight)
    /\ UNCHANGED <<nameVars, storeVars, ctxVars, textVars, procVars>>

\* client.Generate returns nil: addAIResponse, then autoSave
GenerateReturns ==
    /\ pc = "streaming"
    /\ LET s1 == addAIResponse(session, response)
       IN  /\ session' = s1
           /\ IF autoSaveDue(Len(s1.Messages))
              THEN \E outcome \in WriteOutcomes :
                     /\ disk' = SaveSession(disk, s1, outcome)
                     /\ lastSave' = IF outcome = "ok" THEN "ok" ELSE "failed"
              ELSE /\ disk' = disk
                   /\ lastSave' = "none"
    /\ pc' = "await"
    /\ lastErr' = "none"
    /\ response' = <<>>
    /\ UNCHANGED <<userName, chunks, turns>>
    /\ lastLine' = NoLine
    /\ inflight' = Tail(inflight)
    /\ UNCHANGED <<dirs, nameVars, storeVars, ctxVars, textVars, procVars>>

Next ==
    \/ NewChat
    \/ ScanEOF
    \/ ReadLine
    \/ GenerateCallback
    \/ GenerateFails
    \/ GenerateReturns

Spec == Init /\ [][Next]_vars

(***************************************************************************)
(* The path functions applied to bounded user names                        *)
(***************************************************************************)
NameChars == UnsafeChars \cup {"_", "a", "CYR", "BAD"}
PairChars == {"a", " ", "/", "_", "|"}

InitNames ==
    /\ nameA \in SeqsUpTo(NameChars, MaxNameLen)
    /\ nameB \in SeqsUpTo(PairChars, MaxPairLen)
    /\ safeA = <<>> /\ pathA = <<>> /\ pathB = <<>>
    /\ namePc = "idle"
    /\ LoopOff
    /\ TwoOff
    /\ disk = <<>>
    /\ dirs = {CtxDir}
    /\ StoreOff
    /\ CtxOff
    /\ TextOff

Sanitize ==
    /\ namePc = "idle"
    /\ safeA' = sanitizeUserName(nameA)
    /\ namePc' = "sanitized"
    /\ UNCHANGED <<nameA, nameB, pathA, pathB>>
    /\ UNCHANGED <<loopVars, storeVars, ctxVars, textVars, procVars>>

Resolve ==
    /\ namePc = "sanitized"
    /\ pathA' = getSessionFilePath(nameA)
    /\ pathB' = getSessionFilePath(nameB)
    /\ namePc' = "resolved"
    /\ UNCHANGED <<nameA, nameB, safeA>>
    /\ UNCHANGED <<loopVars, storeVars, ctxVars, textVars, procVars>>

NextNames == Sanitize \/ Resolve

SpecNames == InitNames /\ [][NextNames]_vars

(***************************************************************************)
(* The store round trip: SaveSession, then loadOrCreateSession             *)
(***************************************************************************)
StoreNames == {<<"a">>, <<"a", " ", "b">>, <<"CYR">>, <<"a", "BAD">>}
StoreContents == {<<>>, <<"a">>, <<"CYR", " ", "<">>, <<"BAD">>}
\* the configurations the process can run with, and the readings of the clock
StoreCfgs == {"cfgA", "cfgB"}
Clock == 0 .. MaxClock

StoreMessages == [Role : {RoleUser, RoleAssistant}, Content : StoreContents]

InitStore ==
    /\ stored \in [UserName : StoreNames, Messages : SeqsUpTo(StoreMessages, MaxStoreMsgs)]
    /\ loaded = NoLoad
    /\ storePc = "idle"
    /\ storeCfg \in StoreCfgs
    /\ fresh = NoFresh
    /\ LoopOff
    /\ TwoOff
    /\ disk = <<>>
    /\ dirs = {CtxDir}
    /\ NamesOff
    /\ CtxOff
    /\ TextOff

StoreSave ==
    /\ storePc = "idle"
    /\ \E outcome \in WriteOutcomes :
         /\ disk' = SaveSession(disk, stored, outcome)
         /\ storePc' = IF outcome = "ok" THEN "saved" ELSE "savefailed"
    /\ UNCHANGED <<stored, loaded, storeCfg, fresh>>
    /\ UNCHANGED <<pc, userName, session, dirs, response, chunks, lastErr, lastSave, turns,
                   inflight, lastLine>>
    /\ UNCHANGED <<nameVars, ctxVars, textVars, procVars>>

StoreLoad ==
    /\ storePc \in {"saved", "savefailed"}
    /\ \E readFails \in BOOLEAN :
         loaded' = loadOrCreateSession(disk, stored.UserName, readFails)
    /\ IF FileExists(disk, getSessionFilePath(stored.UserName))
       THEN fresh' = NoFresh
       ELSE \E now1 \in Clock, now2 \in Clock :
              /\ now1 <= now2
              /\ fresh' = NewSessionFields(storeCfg, now1, now2)
    /\ storePc' = IF storePc = "saved" THEN "loaded" ELSE "loadedstale"
    /\ UNCHANGED <<stored, disk, storeCfg>>
    /\ UNCHANGED <<pc, userName, session, dirs, response, chunks, lastErr, lastSave, turns,
                   inflight, lastLine>>
    /\ UNCHANGED <<nameVars, ctxVars, textVars, procVars>>

NextStore == StoreSave \/ StoreLoad

SpecStore == InitStore /\ [][NextStore]_vars

(***************************************************************************)
(* The context window: DisplayRecentMessages and the two forms of          *)
(* sendMessage applied to bounded histories and configurations             *)
(***************************************************************************)
\* the content of the message at each position, so that a message of the
\* payload is recognised by its content
CtxDigits == <<"1", "2", "3", "4", "5", "6", "7", "8", "9">>

CtxHistories ==
    UNION { { [i \in 1 .. n |-> Message(r[i], <<CtxDigits[i]>>)] :
                r \in [1 .. n -> {RoleUser, RoleAssistant}] } : n \in 0 .. MaxHistory }

CtxCfgs ==
    [ModelName : {"deepseek-r1:8b"},
     Temperature : {"0.1", "0.5"},
     ThinkValue : {FALSE},
     CtxSizeLimit : (-1) .. MaxLimit,
     SystemPrompt : {<<>>, <<"s">>},
     AssistantPrefill : {<<"p">>},
     UseAssistantPrefill : BOOLEAN,
     StopSequences : {<<>>, <<"Human:", "User:">>},
     MaxResponseSize : {0, 1024}]

\* the line the user types
CtxInputs == {<<"q">>}

InitContext ==
    /\ ctxMessages \in CtxHistories
    /\ ctxCfg \in CtxCfgs
    /\ ctxCount = 0
    /\ ctxStart = 0
    /\ ctxShown = <<>>
    /\ ctxReads = {}
    /\ ctxReq = NoRequest
    /\ ctxChatReq = NoRequest
    /\ ctxErr = "none"
    /\ ctxPc = "ready"
    /\ LoopOff
    /\ TwoOff
    /\ disk = <<>>
    /\ dirs = {CtxDir}
    /\ NamesOff
    /\ StoreOff
    /\ TextOff

\* DisplayRecentMessages(messages, count) with a count from the given set;
\* an index outside the slice ends the call with a run-time panic
DisplayRecentOf(counts) ==
    /\ ctxPc = "ready"
    /\ \E count \in counts :
         LET reads == DisplayReads(ctxMessages, count)
         IN  /\ ctxCount' = count
             /\ ctxStart' = calculateStartIndex(Len(ctxMessages), count)
             /\ ctxReads' = reads
             /\ IF InRange(ctxMessages, reads)
                THEN /\ ctxShown' = DisplayRecentMessages(ctxMessages, count)
                     /\ ctxPc' = "shown"
                ELSE /\ ctxShown' = <<>>
                     /\ ctxPc' = "panicked"
    /\ UNCHANGED <<ctxMessages, ctxCfg, ctxReq, ctxChatReq, ctxErr>>
    /\ UNCHANGED <<loopVars, nameVars, storeVars, textVars, procVars>>

\* main: chat.DisplayRecentMessages(session.Messages, count)
DisplayRecent == DisplayRecentOf(0 .. MaxLimit)

\* processUserInput and sendMessage of chat.go, up to the call of
\* client.Generate
SendGenerate ==
    /\ ctxPc \in {"ready", "shown"}
    /\ \E input \in CtxInputs :
         LET messages == appendUserMessage(ChatSession(<<>>, ctxMessages), input).Messages
             reads == PromptReads(messages, ctxCfg)
         IN  /\ ctxMessages' = messages
             /\ ctxCount' = ctxCfg.CtxSizeLimit
             /\ ctxStart' = calculateStartIndex(Len(messages), ctxCfg.CtxSizeLimit)
             /\ ctxReads' = reads
             /\ IF InRange(messages, reads)
                THEN /\ ctxReq' = sendMessage(messages, ctxCfg).req
                     /\ ctxErr' = sendMessage(messages, ctxCfg).err
                     /\ ctxPc' = "generate"
                ELSE /\ ctxReq' = NoRequest
                     /\ ctxErr' = "none"
                     /\ ctxPc' = "panicked"
    /\ UNCHANGED <<ctxCfg, ctxShown, ctxChatReq>>
    /\ UNCHANGED <<loopVars, nameVars, storeVars, textVars, procVars>>

\* sendMessage of chat.go called with the history as it is, up to the call
\* of client.Generate or to the return that precedes it
SendDirect ==
    /\ ctxPc \in {"ready", "shown"}
    /\ LET reads == PromptReads(ctxMessages, ctxCfg)
       IN  /\ ctxReads' = reads
           /\ IF ~InRange(ctxMessages, reads)
              THEN /\ ctxErr' = "none"
                   /\ ctxReq' = NoRequest
                   /\ UNCHANGED <<ctxCount, ctxStart>>
                   /\ ctxPc' = "panicked"
              ELSE LET sent == sendMessage(ctxMessages, ctxCfg)
                   IN  /\ ctxErr' = sent.err
                       /\ ctxReq' = sent.req
                       /\ IF sent.err = "none"
                          THEN /\ ctxCount' = ctxCfg.CtxSizeLimit
                               /\ ctxStart' = calculateStartIndex(Len(ctxMessages),
                                                                  ctxCfg.CtxSizeLimit)
                               /\ ctxPc' = "generate"
                          ELSE /\ UNCHANGED <<ctxCount, ctxStart>>
                               /\ ctxPc' = "returned"
    /\ UNCHANGED <<ctxMessages, ctxCfg, ctxShown, ctxChatReq>>
    /\ UNCHANGED <<loopVars, nameVars, storeVars, textVars, procVars>>

\* processUserInput and sendMessage of the message-list variant, up to the
\* call of client.Chat
SendChat ==
    /\ ctxPc \in {"ready", "shown"}
    /\ \E input \in CtxInputs :
         LET messages == appendUserMessage(ChatSession(<<>>, ctxMessages), input).Messages
             reads == ChatReads(messages, ctxCfg)
         IN  /\ ctxMessages' = messages
             /\ ctxCount' = ctxCfg.CtxSizeLimit
             /\ ctxStart' = calculateStartIndex(Len(messages), ctxCfg.CtxSizeLimit)
             /\ ctxReads' = reads
             /\ IF InRange(messages, reads)
                THEN /\ ctxChatReq' = ChatRequest(messages, ctxCfg)
                     /\ ctxPc' = "chat"
                ELSE /\ ctxChatReq' = NoRequest
                     /\ ctxPc' = "panicked"
    /\ UNCHANGED <<ctxCfg, ctxShown, ctxReq, ctxErr>>
    /\ UNCHANGED <<loopVars, nameVars, storeVars, textVars, procVars>>

NextContext == DisplayRecent \/ SendGenerate \/ SendDirect \/ SendChat

SpecContext == InitContext /\ [][NextContext]_vars

(***************************************************************************)
(* The text functions applied to bounded strings                           *)
(***************************************************************************)
TextChars == {"a", "CYR", "EMO"}

\* the strings around the exit keywords
ExitLike ==
    { <<"e", "x", "i", "t">>, <<"q", "u", "i", "t">>,
      <<"E", "X", "I", "T">>, <<" ", "e", "x", "i", "t">>, <<"q", "u", "i", "t", " ">>,
      <<" ">>, <<"e", "x", "i">>, <<"h", "e", "l", "l", "o">> }

InitText ==
    /\ textIn \in SeqsUpTo(TextChars, MaxTextLen) \cup ExitLike
    /\ textMax \in 0 .. MaxLength
    /\ textExit = FALSE
    /\ textOut = <<>>
    /\ textMsg = NoCall
    /\ textPc = "ready"
    /\ LoopOff
    /\ TwoOff
    /\ disk = <<>>
    /\ dirs = {CtxDir}
    /\ NamesOff
    /\ StoreOff
    /\ CtxOff

CheckExit ==
    /\ textPc = "ready"
    /\ textExit' = isExitCommand(textIn)
    /\ textPc' = "exitchecked"
    /\ UNCHANGED <<textIn, textMax, textOut, textMsg>>
    /\ UNCHANGED <<loopVars, nameVars, storeVars, ctxVars, procVars>>

Truncate ==
    /\ textPc = "ready"
    /\ textOut' = truncateContent(textIn, textMax)
    /\ textPc' = "truncated"
    /\ UNCHANGED <<textIn, textMax, textExit, textMsg>>
    /\ UNCHANGED <<loopVars, nameVars, storeVars, ctxVars, procVars>>

\* the roles a caller can pass: the two the program uses and two it does not
TextRoles == {RoleUser, RoleAssistant, "system", ""}

MakeMessage ==
    /\ textPc = "ready"
    /\ \E role \in TextRoles :
         LET made == NewMessage(role, textIn)
         IN  textMsg' = [role |-> role, err |-> made.err, msg |-> made.msg]
    /\ textPc' = "made"
    /\ UNCHANGED <<textIn, textMax, textExit, textOut>>
    /\ UNCHANGED <<loopVars, nameVars, storeVars, ctxVars, procVars>>

NextText == CheckExit \/ Truncate \/ MakeMessage

SpecText == InitText /\ [][NextText]_vars

(***************************************************************************)
(* Properties                                                              *)
(***************************************************************************)
Running == pc \in {"await", "streaming", "closed"}

LastMessage == session.Messages[Len(session.Messages)]

\* the answer-channel fragments of the current stream, in arrival order
AnswerChunks == [i \in DOMAIN chunks |-> chunks[i].Response]

\* the number of messages of the session file a path holds (0 without a
\* readable session file)
FileCount(path) ==
    IF FileExists(disk, path) /\ disk[path].kind = "json"
    THEN Len(disk[path].messages)
    ELSE 0

Max(a, b) == IF a >= b THEN a ELSE b

\* the messages the user's session file holds: the file the session was
\* loaded from or the file the session is saved to, whichever holds more
OnDiskCount ==
    Max(FileCount(getSessionFilePath(userName)),
        FileCount(getSessionFilePath(session.UserName)))

SaveCount(n) == n = 2 \/ (n > 0 /\ n % 4 = 0)

\* C1: in a run of the loop, a step brings the message count to 2 or to a
\* positive multiple of 4 exactly when that step saves the session; failed
\* sends and loaded histories included.
C1_SavedExactlyAtCounts ==
    [][(Running /\ Len(session'.Messages) # Len(session.Messages))
         => (lastSave' # "none" <=> SaveCount(Len(session'.Messages)))]_vars

\* C2: at every point of a run at most 3 messages of the in-memory session
\* are missing from the session file on disk.
C2_AtMostThreeUnsaved ==
    Running => Len(session.Messages) - OnDiskCount <= 3

\* C3: when the inference call returns an error, whatever was delivered
\* before: the session is unchanged (no assistant message, the user message
\* of the turn stays last), the buffer is dropped, nothing is saved and the
\* loop awaits input again.
C3_SendErrorKeepsHistory ==
    [][(pc = "streaming" /\ lastErr' = "ErrMessageSend")
         => /\ session' = session
            /\ LastMessage.Role = RoleUser
            /\ response' = <<>>
            /\ lastSave' = "none"
            /\ disk' = disk
            /\ pc' = "await"]_vars

C3_Witness ==
    /\ pc = "await"
    /\ lastErr = "ErrMessageSend"
    /\ \E i \in DOMAIN chunks : chunks[i].Response # <<>>
    /\ LastMessage.Role = RoleUser
    /\ Len(session.Messages) >= 3

C5_ContentNonEmpty ==
    \A i \in DOMAIN session.Messages : session.Messages[i].Content # <<>>

\* C6: every step of the loop keeps the message sequence as a prefix of the
\* new one.
C6_AppendOnly ==
    [][Running => IsPrefix(session.Messages, session'.Messages)]_vars

C6_Witness ==
    /\ pc = "await"
    /\ lastErr = "ErrMessageSend"
    /\ turns >= 2
    /\ \E i \in DOMAIN session.Messages : session.Messages[i].Role = RoleAssistant

\* C7 (as stated): two distinct user names never resolve to the same path.
C7_DistinctNamesDistinctPaths ==
    (namePc = "resolved" /\ nameA # nameB) => pathA # pathB

Replaced(c) == c \in {" ", "/", "\\", ":", "*", "?", "\"", "<", ">", "|", "_"}

\* C7 (amended): two user names resolve to the same path exactly when they
\* have the same length and agree at every position, except where both have
\* a replaced character or an underscore.
C7_SamePathIffSameSanitized ==
    namePc = "resolved" =>
        (pathA = pathB <=>
            /\ Len(nameA) = Len(nameB)
            /\ \A i \in DOMAIN nameA :
                 nameA[i] = nameB[i] \/ (Replaced(nameA[i]) /\ Replaced(nameB[i])))

C7_Witness ==
    /\ namePc = "resolved"
    /\ nameA # nameB
    /\ pathA = pathB
    /\ Len(nameA) = 2

\* C8: a session saved and then loaded under the same user name comes back
\* with the same user name and the same messages, role and content, in order.
C8_RoundTrip ==
    (storePc = "loaded" /\ loaded.err = "none")
        => /\ loaded.session.UserName = stored.UserName
           /\ loaded.session.Messages = stored.Messages

\* C9: whenever a session file exists during a run it is valid JSON, also
\* after a failed or interrupted write, and after a save it reloads to the
\* message sequence that was saved.
C9_FileAlwaysValid ==
    Running =>
        /\ \A p \in DOMAIN disk : disk[p].kind = "json"
        /\ lastSave = "ok" =>
             Unmarshal(disk[getSessionFilePath(session.UserName)]).Messages
                = session.Messages

\* C10: sanitizing replaces each of space / \ : * ? " < > | by an underscore,
\* keeps every other character in place, and sanitizing the result changes
\* nothing.
C10_SanitizeTotalIdempotent ==
    namePc \in {"sanitized", "resolved"} =>
        /\ Len(safeA) = Len(nameA)
        /\ \A i \in DOMAIN nameA :
             safeA[i] = IF nameA[i] \in {" ", "/", "\\", ":", "*", "?", "\"", "<", ">", "|"}
                        THEN "_" ELSE nameA[i]
        /\ sanitizeUserName(safeA) = safeA

C10_Witness ==
    /\ namePc = "sanitized"
    /\ nameA = <<"CYR", "|">>
    /\ safeA = <<"CYR", "_">>

\* the start of the context window the configured limit gives, counted from 0
WindowStart == Max(0, Len(ctxMessages) - ctxCfg.CtxSizeLimit)

\* the message is one of the pieces of the flattened prompt
InPrompt(req, msg) ==
    \E k \in DOMAIN req.Prompt :
        /\ req.Prompt[k].label \in {"Polzovatel", "Assistent", "Tekushchiy vopros"}
        /\ req.Prompt[k].content = msg.Content

\* the message is one of the history messages of the message list
InChat(req, msg) ==
    \E k \in DOMAIN req.Messages :
        /\ req.Messages[k].Role = msg.Role
        /\ req.Messages[k].Content = msg.Content

\* how many messages before the current one the flattened prompt holds
PriorInPrompt(req) ==
    Cardinality({k \in DOMAIN req.Prompt :
                    req.Prompt[k].label \in {"Polzovatel", "Assistent"}})

NewestMessage == ctxMessages[Len(ctxMessages)]

\* C11: for non-negative total and count, calculateStartIndex returns
\* max(0, total - count): a count of zero gives total, a count of at least
\* total gives 0.
C11_StartIsClampedDifference ==
    (ctxPc \in {"shown", "generate", "chat"} /\ ctxCount >= 0) =>
        /\ ctxStart = Max(0, Len(ctxMessages) - ctxCount)
        /\ ctxCount = 0 => ctxStart = Len(ctxMessages)
        /\ ctxCount >= Len(ctxMessages) => ctxStart = 0

C11_Witness ==
    /\ ctxPc = "shown"
    /\ Len(ctxMessages) = 2
    /\ ctxCount = 3
    /\ ctxStart = 0

C13_NewestAlwaysSent ==
    /\ ctxPc = "generate" => InPrompt(ctxReq, NewestMessage)
    /\ ctxPc = "chat" => InChat(ctxChatReq, NewestMessage)

\* C14: a save that fails leaves the session as addAIResponse made it and
\* the loop awaiting input, and every save that succeeds writes the whole
\* session, the messages an earlier save failed to write included.
C14_FailedSaveRecoverable ==
    [][ /\ lastSave' = "failed" =>
             /\ session' = addAIResponse(session, response)
             /\ pc' = "await"
             /\ lastErr' = "none"
        /\ lastSave' = "ok" =>
             /\ FileExists(disk', getSessionFilePath(session'.UserName))
             /\ disk'[getSessionFilePath(session'.UserName)] = MarshalIndent(session')
      ]_vars

\* the first save failed and left a cut file, and the loop awaits input
C14_Witness ==
    /\ pc = "await"
    /\ lastSave = "failed"
    /\ Len(session.Messages) = 2
    /\ FileExists(disk, getSessionFilePath(session.UserName))
    /\ disk[getSessionFilePath(session.UserName)] = TruncatedFile

\* C15: with a session file at the user's path, a read that fails gives
\* ErrFileRead and content that is not valid JSON gives ErrFileParse; in both
\* cases no session is returned, NewChat fails and the file is as it was.
C15_LoadErrorsSurface ==
    [][ (pc = "init" /\ FileExists(disk, getSessionFilePath(userName))) =>
          /\ loadOrCreateSession(disk, userName, TRUE)
                = [err |-> "ErrFileRead", session |-> ZeroSession]
          /\ disk[getSessionFilePath(userName)].kind # "json" =>
                /\ loadOrCreateSession(disk, userName, FALSE)
                      = [err |-> "ErrFileParse", session |-> ZeroSession]
                /\ pc' = "failed"
          /\ lastErr' \in {"ErrSessionInit: ErrFileRead", "ErrSessionInit: ErrFileParse"} =>
                /\ pc' = "failed"
                /\ session' = ZeroSession
                /\ disk' = disk
      ]_vars

C15_Witness ==
    /\ pc = "failed"
    /\ lastErr = "ErrSessionInit: ErrFileParse"
    /\ session = ZeroSession
    /\ disk[getSessionFilePath(userName)] = TruncatedFile

\* C16: with no file at the user's path, loadOrCreateSession returns a
\* session with the given name, no messages, the configuration attached and
\* Created equal to Updated, and creates no file.
C16_FreshSessionStamps ==
    (storePc \in {"loaded", "loadedstale"}
       /\ ~FileExists(disk, getSessionFilePath(stored.UserName))) =>
        /\ loaded = [err |-> "none", session |-> ChatSession(stored.UserName, <<>>)]
        /\ fresh.Cfg = storeCfg
        /\ fresh.Created = fresh.Updated

\* C17: NewChat with an empty user name returns ErrEmptyInput: no chat is
\* started, no directory is created and no file is read or written.
C17_EmptyNameFailsFirst ==
    [][ (pc = "init" /\ userName = <<>>) =>
          /\ lastErr' = "ErrEmptyInput"
          /\ pc' = "failed"
          /\ session' = ZeroSession
          /\ dirs' = dirs
          /\ disk' = disk
      ]_vars

C17_Witness ==
    /\ pc = "failed"
    /\ userName = <<>>
    /\ lastErr = "ErrEmptyInput"
    /\ dirs = {}
    /\ FileExists(disk, getSessionFilePath(userName)) = FALSE

\* C18: isExitCommand is true for "exit", "quit" and the empty string and
\* for nothing else: not for "EXIT", not for " exit", not for "quit ".
C18_ExitExactlyThree ==
    textPc = "exitchecked" =>
        (textExit <=> textIn \in {<<"e", "x", "i", "t">>, <<"q", "u", "i", "t">>, <<>>})

C18_Witness ==
    /\ textPc = "exitchecked"
    /\ textIn = <<" ", "e", "x", "i", "t">>
    /\ ~textExit

\* C19: the request carries the configured model name, temperature and
\* system prompt, the stop sequences when any are configured, and num_predict
\* equal to the configured maximum response size when that is above 0.
C19_RequestCarriesOptions ==
    ctxPc = "generate" =>
        /\ ctxReq.Model = ctxCfg.ModelName
        /\ ctxReq.Options["temperature"] = ctxCfg.Temperature
        /\ ctxReq.System = ctxCfg.SystemPrompt
        /\ ctxCfg.StopSequences # <<>> =>
              /\ "stop" \in DOMAIN ctxReq.Options
              /\ ctxReq.Options["stop"] = ctxCfg.StopSequences
        /\ ctxCfg.MaxResponseSize > 0 =>
              /\ "num_predict" \in DOMAIN ctxReq.Options
              /\ ctxReq.Options["num_predict"] = ctxCfg.MaxResponseSize

\* the first maxLength characters and the ellipsis when the content has more
\* than maxLength characters, the content otherwise
TruncateByCharacter(content, maxLength) ==
    IF Len(content) > maxLength
    THEN Bytes(SubSeq(content, 1, maxLength) \o Ellipsis)
    ELSE Bytes(content)

\* C20: truncateContent never cuts inside a character: its result is the
\* first maxLength characters followed by "..." when the content has more
\* than maxLength characters, and the content otherwise.
C20_TruncationKeepsCharacters ==
    textPc = "truncated" => textOut = TruncateByCharacter(textIn, textMax)

\* the line without its leading and trailing spaces
Stripped(s) ==
    LET inked == {i \in DOMAIN s : s[i] # " "}
    IN  IF inked = {} THEN <<>>
        ELSE SubSeq(s, CHOOSE i \in inked : \A j \in inked : i <= j,
                       CHOOSE i \in inked : \A j \in inked : i >= j)

ExitWords == {<<"e", "x", "i", "t">>, <<"q", "u", "i", "t">>, <<>>}

\* the content the flattened prompt gives as the current question
CurrentQuestion(req) ==
    LET k == CHOOSE k \in DOMAIN req.Prompt : req.Prompt[k].label = "Tekushchiy vopros"
    IN  req.Prompt[k].content

\* the step appends one message of the given role
Appends(role) ==
    /\ Len(session'.Messages) = Len(session.Messages) + 1
    /\ SubSeq(session'.Messages, 1, Len(session.Messages)) = session.Messages
    /\ session'.Messages[Len(session'.Messages)].Role = role

\* C21: sendMessage called with no messages returns ErrNoMessages: no
\* request is built, no message is appended and nothing is saved; a request
\* is only ever built from a history that has messages.
C21_EmptySendReturnsAtOnce ==
    /\ ctxPc = "returned" =>
         /\ ctxErr = "ErrNoMessages"
         /\ ctxReq = NoRequest
         /\ ctxChatReq = NoRequest
         /\ ctxMessages = <<>>
         /\ disk = <<>>
    /\ ctxPc = "generate" =>
         /\ ctxMessages # <<>>
         /\ ctxErr = "none"

C21_Witness ==
    /\ ctxPc = "returned"
    /\ ctxErr = "ErrNoMessages"
    /\ ctxMessages = <<>>
    /\ ctxCfg.CtxSizeLimit = 3

\* C22: at most one request is outstanding at any time, and scanner.Scan()
\* is called only when none is.
C22_OneRequestInFlight ==
    [][ /\ Len(inflight') <= 1
        /\ (pc' = "streaming") <=> (Len(inflight') = 1)
        /\ lastLine'.kind # "none" => inflight = <<>>
      ]_vars

C22_Witness ==
    /\ pc = "streaming"
    /\ Len(inflight) = 1
    /\ turns = 2
    /\ chunks # <<>>

\* C23: once the loop has closed no step appends a message, issues a
\* request or saves.
C23_ClosedIsTerminal ==
    [][ pc = "closed" =>
          /\ pc' = "closed"
          /\ session' = session
          /\ inflight' = inflight
          /\ disk' = disk
      ]_vars

C23_Witness ==
    /\ pc = "closed"
    /\ lastLine = EndOfInput
    /\ Len(session.Messages) = 2

\* C24: the message list of the request is the system message first exactly
\* when the system prompt is not empty, then the messages of the window in
\* their order, each with its role and content.
C24_ChatMessageList ==
    ctxPc = "chat" =>
        LET off == IF ctxCfg.SystemPrompt # <<>> THEN 1 ELSE 0
            kept == Max(0, Len(ctxMessages) - WindowStart)
            list == ctxChatReq.Messages
        IN  /\ Len(list) = off + kept
            /\ off = 1 => list[1] = [Role |-> "system", Content |-> ctxCfg.SystemPrompt]
            /\ \A k \in 1 .. kept :
                  list[off + k] = [Role |-> ctxMessages[WindowStart + k].Role,
                                   Content |-> ctxMessages[WindowStart + k].Content]

C24_Witness ==
    /\ ctxPc = "chat"
    /\ ctxCfg.SystemPrompt # <<>>
    /\ ctxCfg.CtxSizeLimit = 2
    /\ Len(ctxMessages) = 4
    /\ Len(ctxChatReq.Messages) = 3

\* C25: NewMessage returns no message and ErrEmptyContent exactly when the
\* content is empty; otherwise it returns a message with the role and the
\* content it was given, whatever the role.
C25_NewMessageRejectsEmpty ==
    textPc = "made" =>
        /\ (textMsg.err = "ErrEmptyContent") <=> (textIn = <<>>)
        /\ textIn = <<>> => textMsg.msg = NilMessage
        /\ textIn # <<>> =>
              /\ textMsg.err = "none"
              /\ textMsg.msg = [Role |-> textMsg.role, Content |-> textIn]

C25_Witness ==
    /\ textPc = "made"
    /\ textMsg.role = "system"
    /\ textIn = <<" ">>
    /\ textMsg.err = "none"

\* C26: the end of the input closes the loop; a line whose trimmed value is
\* "exit", "quit" or empty closes the loop and appends nothing; every other
\* line appends one user message whose content is the trimmed line.
C26_TrimThenExitCheck ==
    [][ /\ lastLine' = EndOfInput =>
             /\ pc' = "closed"
             /\ session' = session
        /\ lastLine'.kind = "line" =>
             IF Stripped(lastLine'.text) \in ExitWords
             THEN /\ pc' = "closed"
                  /\ session' = session
             ELSE /\ pc' # "closed"
                  /\ session' = [session EXCEPT !.Messages =
                                    Append(@, [Role |-> RoleUser,
                                               Content |-> Stripped(lastLine'.text)])]
      ]_vars

C26_Witness ==
    /\ pc = "closed"
    /\ lastLine = LineRead(<<" ", "e", "x", "i", "t", " ">>)
    /\ session.Messages # <<>>

\* C27: after a failed send and after a failed save the loop awaits input,
\* and every state with a request outstanding is followed by one that awaits
\* input.
C27_ErrorsReturnToAwait ==
    /\ []((lastErr = "ErrMessageSend" \/ lastSave = "failed") => pc = "await")
    /\ ((pc = "streaming") ~> (pc = "await"))

C27_Witness ==
    /\ pc = "await"
    /\ lastErr = "ErrMessageSend"
    /\ turns = 2

\* C28: in the loop sendMessage never returns ErrNoMessages; the request is
\* issued in the step that appends the user message, from a history that
\* ends with it, with the entered line as the current question; the
\* assistant message is appended when that request returns, and a save
\* happens only in the step that appends the assistant message.
C28_TurnOrder ==
    /\ [](lastErr # "ErrNoMessages")
    /\ [](pc = "streaming" =>
            /\ session.Messages # <<>>
            /\ LastMessage.Role = RoleUser
            /\ CurrentQuestion(inflight[1]) = LastMessage.Content)
    /\ [][ /\ Len(inflight') > Len(inflight) =>
                /\ lastLine'.kind = "line"
                /\ session'.Messages =
                      Append(session.Messages,
                             [Role |-> RoleUser, Content |-> Stripped(lastLine'.text)])
                /\ CurrentQuestion(inflight'[1]) = Stripped(lastLine'.text)
           /\ Appends(RoleAssistant) =>
                /\ Len(inflight) = 1
                /\ inflight' = <<>>
           /\ (disk' # disk \/ lastSave' # "none") => Appends(RoleAssistant)
          ]_vars

C28_Witness ==
    /\ pc = "streaming"
    /\ Len(session.Messages) = 3
    /\ session.Messages[2].Role = RoleAssistant
    /\ CurrentQuestion(inflight[1]) = <<"a">>
    /\ lastLine = LineRead(<<" ", "a", " ">>)

\* C29: the step that appends a user message saves nothing, also when the
\* count it reaches is 2 or a multiple of 4.
C29_NoSaveOnUserAppend ==
    [][ (pc = "await" /\ Appends(RoleUser)) =>
          /\ disk' = disk
          /\ lastSave' = "none"
      ]_vars

C29_Witness ==
    /\ pc = "streaming"
    /\ lastLine.kind = "line"
    /\ Len(session.Messages) = 2
    /\ session.Messages[1].Role = RoleUser
    /\ session.Messages[2].Role = RoleUser
    /\ lastSave = "none"
    /\ ~FileExists(disk, getSessionFilePath(session.UserName))

\* C30: while the process runs, the session file, when it exists, holds a
\* prefix of the messages in memory, and right after a successful save it
\* holds exactly the messages in memory.
C30_FileIsPrefixOfMemory ==
    (Running /\ FileExists(disk, getSessionFilePath(session.UserName))) =>
        LET file == disk[getSessionFilePath(session.UserName)]
        IN  /\ file.kind = "json"
            /\ IsPrefix(Unmarshal(file).Messages, session.Messages)
            /\ lastSave = "ok" => Unmarshal(file).Messages = session.Messages

\* C31: the step that closes the loop (an exit keyword, a blank line, the
\* end of the input) performs no save and leaves the disk as it is, and the
\* disk changes only in a step whose auto-save succeeds; so at the close the
\* file is exactly what the last successful auto-save wrote.
C31_CloseSavesNothing ==
    /\ [][ (pc = "await" /\ pc' = "closed") =>
              /\ lastLine'.kind \in {"eof", "line"}
              /\ disk' = disk
              /\ lastSave' = "none"
              /\ session' = session ]_vars
    /\ [][ (Running /\ disk' # disk) => lastSave' = "ok" ]_vars

(***************************************************************************)
(* The chat loop with a client that returns: the request of sendMessage    *)
(* runs under context.WithTimeout, so client.Generate returns, with an     *)
(* answer or with an error                                                 *)
(***************************************************************************)
InitLive ==
    /\ Init
    /\ userName = <<"a", " ", "b">>
    /\ disk = <<>>

SpecLive == InitLive /\ [][Next]_vars /\ WF_vars(GenerateFails \/ GenerateReturns)

(***************************************************************************)
(* The chat loop started on a session file of any parseable content: the   *)
(* file at the user's path was written by a run under the same name, by a  *)
(* run under a name that sanitizes to the same file name, or by hand       *)
(***************************************************************************)
ReloadNames == {<<"a", " ", "b">>, <<"a", "BAD">>}

\* the values the username key of the file can hold: what a run under the
\* name wrote, what a run under a colliding name wrote, another name, the
\* empty string
ReloadUsernames(u) ==
    {ToValidUTF8(u), sanitizeUserName(ToValidUTF8(u)), <<"c">>, <<>>}

\* the JSON document of a session without its username key
WithoutUsername(doc) == [k \in (DOMAIN doc) \ {"username"} |-> doc[k]]

\* the file systems the program can start in: no session file, or a
\* parseable one at the user's path
ReloadDisks(u) ==
    LET path == getSessionFilePath(u)
        docs == { MarshalIndent(ChatSession(n, h)) :
                    n \in ReloadUsernames(u), h \in EarlierHistories }
    IN  { <<>> }
        \cup { [p \in {path} |-> doc] : doc \in docs }
        \cup { [p \in {path} |-> WithoutUsername(doc)] : doc \in docs }

InitReload ==
    /\ pc = "init"
    /\ userName \in ReloadNames
    /\ session = ZeroSession
    /\ disk \in ReloadDisks(userName)
    /\ dirs \in InitDirs(disk)
    /\ response = <<>>
    /\ chunks = <<>>
    /\ lastErr = "none"
    /\ lastSave = "none"
    /\ turns = 0
    /\ inflight = <<>>
    /\ lastLine = NoLine
    /\ NamesOff
    /\ StoreOff
    /\ CtxOff
    /\ TextOff
    /\ TwoOff

SpecReload == InitReload /\ [][Next]_vars

\* C32: a session loaded for a user name is saved to the file it was loaded
\* from: whatever parseable content the file at the user's path holds, no
\* other file is written, and after a successful save the file at the
\* user's path holds the session in memory.
C32_SavedWhereLoaded ==
    Running =>
        /\ DOMAIN disk \subseteq {getSessionFilePath(userName)}
        /\ lastSave = "ok" =>
              /\ FileExists(disk, getSessionFilePath(userName))
              /\ disk[getSessionFilePath(userName)] = MarshalIndent(session)

(***************************************************************************)
(* The context window for every limit an int can hold: the window          *)
(* functions applied to bounded histories and to limits that are small,    *)
(* negative, or at the ends of the range of int                            *)
(***************************************************************************)
\* the limits: the small ones of either sign, and those around which the
\* subtraction of calculateStartIndex wraps
WindowLimits == ((-MaxLimit) .. MaxLimit) \cup {MinInt, MinInt + 2, MaxInt}

\* the default configuration with CTX_SIZE_LIMIT set
WindowCfgs == { [LoopCfg EXCEPT !.CtxSizeLimit = limit] : limit \in WindowLimits }

InitWindow ==
    /\ ctxMessages \in CtxHistories
    /\ ctxCfg \in WindowCfgs
    /\ ctxCount = 0
    /\ ctxStart = 0
    /\ ctxShown = <<>>
    /\ ctxReads = {}
    /\ ctxReq = NoRequest
    /\ ctxChatReq = NoRequest
    /\ ctxErr = "none"
    /\ ctxPc = "ready"
    /\ LoopOff
    /\ TwoOff
    /\ disk = <<>>
    /\ dirs = {CtxDir}
    /\ NamesOff
    /\ StoreOff
    /\ TextOff

\* DisplayRecentMessages(messages, count) called with any count
DisplayWindow == DisplayRecentOf(WindowLimits)

NextWindow == DisplayWindow \/ SendGenerate \/ SendDirect \/ SendChat

SpecWindow == InitWindow /\ [][NextWindow]_vars

\* how many messages a window that starts at the given index holds
WindowSize(total, start) == IF start >= total THEN 0 ELSE total - start

\* C33: for every limit, zero, negative and the ends of the range of int
\* included, and every history, the display and both forms of context
\* building read the history only at its own positions and do not fail;
\* a start index at or beyond the length gives an empty window: nothing
\* displayed, no prior message in the prompt, no history message in the
\* message list.
C33_WindowStaysInside ==
    /\ ctxPc # "panicked"
    /\ \A i \in ctxReads : 1 <= i /\ i <= Len(ctxMessages)
    /\ ctxPc \in {"shown", "generate", "chat"} => ctxStart >= 0
    /\ ctxPc = "shown" =>
          Len(ctxShown) = WindowSize(Len(ctxMessages), ctxStart)
    /\ ctxPc = "generate" =>
          /\ PriorInPrompt(ctxReq) = WindowSize(Len(ctxMessages) - 1, ctxStart)
          /\ CurrentQuestion(ctxReq) = NewestMessage.Content
    /\ ctxPc = "chat" =>
          Len(ctxChatReq.Messages) =
              (IF ctxCfg.SystemPrompt # <<>> THEN 1 ELSE 0)
                  + WindowSize(Len(ctxMessages), ctxStart)

\* a negative limit put the start far beyond the one message of the
\* history, and nothing was displayed
C33_Witness ==
    /\ ctxPc = "shown"
    /\ ctxCount = MinInt + 2
    /\ Len(ctxMessages) = 1
    /\ ctxStart = MaxInt
    /\ ctxReads = {}
    /\ ctxShown = <<>>

(***************************************************************************)
(* Two processes that run the chat loop for the same user name: each has   *)
(* its own session in memory, the file system is shared, and os.WriteFile  *)
(* is the open that truncates followed by the write                        *)
(***************************************************************************)
Procs == {1, 2}

\* the name both processes are given, and the file it resolves to
TwoUser == <<"a", " ", "b">>
TwoPath == getSessionFilePath(TwoUser)

\* the lines each process reads: its own question, or an exit command
TwoLines == <<{<<"a">>, <<"e", "x", "i", "t">>}, {<<"c">>, <<"e", "x", "i", "t">>}>>

\* the answers the builder holds when client.Generate returns
TwoAnswers == {<<"b">>}

\* no document
NoDoc == [kind |-> "none"]

\* a file right after the open with O_TRUNC: it holds nothing, which is not
\* valid JSON
EmptyFile == [kind |-> "empty"]

\* a file that holds a document followed by the rest of a longer one, or the
\* start of one followed by the rest of another: not valid JSON
MixedFile == [kind |-> "mixed"]

PutFile(d, path, file) ==
    [q \in (DOMAIN d) \cup {path} |-> IF q = path THEN file ELSE d[q]]

\* os.WriteFile, its call of OpenFile(name, O_WRONLY|O_CREATE|O_TRUNC, perm)
OpenTrunc(d, path) == PutFile(d, path, EmptyFile)

\* the length of the JSON document, up to what all documents share
RECURSIVE MessagesSize(_)
MessagesSize(ms) ==
    IF ms = <<>> THEN 0
    ELSE 1 + Len(Bytes(Head(ms).content)) + MessagesSize(Tail(ms))

DocSize(doc) == Len(Bytes(doc.username)) + MessagesSize(doc.messages)

\* os.WriteFile, its call of f.Write(data) when all of data is written: the
\* bytes go to the start of the file and what the file holds beyond them
\* stays, so the file is the document unless another process has written
\* more since this one truncated it
Written(data, file) ==
    IF file.kind = "empty" THEN {data}
    ELSE IF file.kind = "json"
    THEN (IF DocSize(data) >= DocSize(file) THEN {data} ELSE {MixedFile})
    ELSE {data, MixedFile}

\* f.Write(data) when it fails: nothing or a part of data was written
CutShort(file) ==
    IF file.kind = "empty" THEN {EmptyFile, TruncatedFile} ELSE {file, MixedFile}

InitTwo ==
    /\ procs = [p \in Procs |-> [pc |-> "init", session |-> ZeroSession, turns |-> 0,
                                 lastSave |-> "none", persisted |-> NoDoc]]
    /\ disk = <<>>
    /\ dirs \in InitDirs(disk)
    /\ LoopOff
    /\ NamesOff
    /\ StoreOff
    /\ CtxOff
    /\ TextOff

\* NewChat(userName, cfg) in process p
TwoNewChat(p) ==
    /\ procs[p].pc = "init"
    /\ \E clientFails \in BOOLEAN, mkdirFails \in MkdirFailures(dirs), readFails \in BOOLEAN :
         LET r == loadOrCreateSession(disk, TwoUser, readFails)
             ok == ~clientFails /\ ~mkdirFails /\ r.err = "none"
         IN  /\ procs' = [procs EXCEPT ![p].pc = IF ok THEN "await" ELSE "failed",
                                       ![p].session = IF ok THEN r.session ELSE ZeroSession]
             /\ dirs' = IF ~clientFails THEN ensureChatsDir(dirs, mkdirFails) ELSE dirs
    /\ UNCHANGED <<pc, userName, session, disk, response, chunks, lastErr, lastSave, turns,
                   inflight, lastLine>>
    /\ UNCHANGED <<nameVars, storeVars, ctxVars, textVars>>

\* StartChat in process p: scanner.Scan() returns false
TwoScanEOF(p) ==
    /\ procs[p].pc = "await"
    /\ procs' = [procs EXCEPT ![p].pc = "closed", ![p].lastSave = "none"]
    /\ UNCHANGED <<loopVars, nameVars, storeVars, ctxVars, textVars>>

\* StartChat in process p: a line is read; an exit command closes the loop,
\* any other line goes to processUserInput, which appends the user message
\* and calls sendMessage up to the call of client.Generate
TwoReadLine(p) ==
    /\ procs[p].pc = "await"
    /\ \E line \in TwoLines[p] :
         LET input == TrimSpace(line)
         IN  IF isExitCommand(input)
             THEN procs' = [procs EXCEPT ![p].pc = "closed", ![p].lastSave = "none"]
             ELSE /\ procs[p].turns < MaxProcTurns
                  /\ LET s1 == appendUserMessage(procs[p].session, input)
                         sent == sendMessage(s1.Messages, LoopCfg)
                     IN  procs' = [procs EXCEPT
                                     ![p].pc = IF sent.err = "none" THEN "streaming"
                                               ELSE "await",
                                     ![p].session = s1,
                                     ![p].turns = @ + 1,
                                     ![p].lastSave = "none"]
    /\ UNCHANGED <<loopVars, nameVars, storeVars, ctxVars, textVars>>

\* client.Generate returns an error in process p
TwoGenerateFails(p) ==
    /\ procs[p].pc = "streaming"
    /\ procs' = [procs EXCEPT ![p].pc = "await", ![p].lastSave = "none"]
    /\ UNCHANGED <<loopVars, nameVars, storeVars, ctxVars, textVars>>

TwoGenerateReturnsNoTrunc(p) ==
    /\ procs[p].pc = "streaming"
    /\ \E answer \in TwoAnswers :
         LET s1 == addAIResponse(procs[p].session, answer)
             path == getSessionFilePath(s1.UserName)
         IN  IF autoSaveDue(Len(s1.Messages))
             THEN \E opens \in BOOLEAN :
                    IF opens
                    THEN /\ disk' = IF FileExists(disk, path) THEN disk
                                    ELSE OpenTrunc(disk, path)
                         /\ procs' = [procs EXCEPT ![p].pc = "writing",
                                                   ![p].session = s1,
                                                   ![p].lastSave = "none"]
                    ELSE /\ disk' = disk
                         /\ procs' = [procs EXCEPT ![p].pc = "await",
                                                   ![p].session = s1,
                                                   ![p].lastSave = "failed"]
             ELSE /\ disk' = disk
                  /\ procs' = [procs EXCEPT ![p].pc = "await",
                                            ![p].session = s1,
                                            ![p].lastSave = "none"]
    /\ UNCHANGED <<pc, userName, session, dirs, response, chunks, lastErr, lastSave, turns,
                   inflight, lastLine>>
    /\ UNCHANGED <<nameVars, storeVars, ctxVars, textVars>>

\* client.Generate returns nil in process p: addAIResponse, then autoSave up
\* to the open of os.WriteFile, which truncates the file or fails
TwoGenerateReturns(p) ==
    /\ procs[p].pc = "streaming"
    /\ \E answer \in TwoAnswers :
         LET s1 == addAIResponse(procs[p].session, answer)
             path == getSessionFilePath(s1.UserName)
         IN  IF autoSaveDue(Len(s1.Messages))
             THEN \E opens \in BOOLEAN :
                    IF opens
                    THEN /\ disk' = OpenTrunc(disk, path)
                         /\ procs' = [procs EXCEPT ![p].pc = "writing",
                                                   ![p].session = s1,
                                                   ![p].lastSave = "none"]
                    ELSE /\ disk' = disk
                         /\ procs' = [procs EXCEPT ![p].pc = "await",
                                                   ![p].session = s1,
                                                   ![p].lastSave = "failed"]
             ELSE /\ disk' = disk
                  /\ procs' = [procs EXCEPT ![p].pc = "await",
                                            ![p].session = s1,
                                            ![p].lastSave = "none"]
    /\ UNCHANGED <<pc, userName, session, dirs, response, chunks, lastErr, lastSave, turns,
                   inflight, lastLine>>
    /\ UNCHANGED <<nameVars, storeVars, ctxVars, textVars>>

\* autoSave in process p, from the write of os.WriteFile on: the document of
\* the session in memory is written, or the write fails
TwoWrite(p) ==
    /\ procs[p].pc = "writing"
    /\ LET own == MarshalIndent(procs[p].session)
           path == getSessionFilePath(procs[p].session.UserName)
       IN  \E fails \in BOOLEAN :
             IF fails
             THEN \E file \in CutShort(disk[path]) :
                    /\ disk' = PutFile(disk, path, file)
                    /\ procs' = [procs EXCEPT ![p].pc = "await", ![p].lastSave = "failed"]
             ELSE \E file \in Written(own, disk[path]) :
                    /\ disk' = PutFile(disk, path, file)
                    /\ procs' = [procs EXCEPT
                                    ![p].pc = "await",
                                    ![p].lastSave = "ok",
                                    ![p].persisted = IF file = own THEN own ELSE @]
    /\ UNCHANGED <<pc, userName, session, dirs, response, chunks, lastErr, lastSave, turns,
                   inflight, lastLine>>
    /\ UNCHANGED <<nameVars, storeVars, ctxVars, textVars>>

NextTwo ==
    \E p \in Procs :
        \/ TwoNewChat(p)
        \/ TwoScanEOF(p)
        \/ TwoReadLine(p)
        \/ TwoGenerateFails(p)
        \/ TwoGenerateReturns(p)
        \/ TwoWrite(p)

SpecTwo == InitTwo /\ [][NextTwo]_vars

\* the document of the first n messages the process holds in memory
MemoryDoc(p, n) ==
    MarshalIndent(ChatSession(procs[p].session.UserName,
                              SubSeq(procs[p].session.Messages, 1, n)))

\* C34: with two processes on one user name nothing holds a save back and
\* nothing is merged. A save can begin and finish while the other process
\* is in the middle of its own; its open empties the file whatever the file
\* held;
\* its write puts the document of its own session at the start of the file,
\* so the file is then that document (or, when the other process wrote a
\* longer document since the open, that document followed by the rest of
\* the other one); and a parseable file always is the document of one
\* process's memory, never of both.
C34_LastWriterWins ==
    /\ [](\A p \in Procs : \A q \in Procs \ {p} :
             procs[q].pc = "writing" =>
                /\ procs[p].pc = "writing" => ENABLED TwoWrite(p)
                /\ procs[p].pc = "streaming" => ENABLED TwoGenerateReturns(p))
    /\ [][ \A p \in Procs :
             LET path == getSessionFilePath(procs'[p].session.UserName)
                 own == MarshalIndent(procs'[p].session)
             IN  /\ (procs[p].pc = "streaming" /\ procs'[p].pc = "writing") =>
                        /\ autoSaveDue(Len(procs'[p].session.Messages))
                        /\ disk'[path] = EmptyFile
                 /\ (procs[p].pc = "writing" /\ procs'[p].lastSave = "ok") =>
                        /\ disk'[path] \in {own, MixedFile}
                        /\ disk[path] = EmptyFile => disk'[path] = own
                        /\ (disk[path].kind = "json" /\ DocSize(disk[path]) <= DocSize(own))
                              => disk'[path] = own
          ]_vars
    /\ []((FileExists(disk, TwoPath) /\ disk[TwoPath].kind = "json") =>
             \E p \in Procs : \E n \in 0 .. Len(procs[p].session.Messages) :
                 disk[TwoPath] = MemoryDoc(p, n))

\* process 1 had saved its question and answer, and the file now is the
\* document of process 2, which holds none of the messages of process 1
C34_Witness ==
    /\ procs[1].pc = "await"
    /\ procs[2].pc = "await"
    /\ procs[1].persisted # NoDoc
    /\ procs[2].lastSave = "ok"
    /\ disk[TwoPath] = MarshalIndent(procs[2].session)
    /\ \E i \in DOMAIN procs[1].persisted.messages :
          procs[1].persisted.messages[i].content = <<"a">>
    /\ \A i \in DOMAIN disk[TwoPath].messages :
          disk[TwoPath].messages[i].content # <<"a">>

====
